---- MODULE Spec2Model ----
(***************************************************************************)
(* magic_rug: a side-scrolling gem collection game written with Bevy.      *)
(*                                                                         *)
(* The model follows src/src/main.rs.  One frame of the Bevy main schedule *)
(* is: StateTransition (the pending NextState is applied and OnEnter       *)
(* systems run), RunFixedMainLoop (the FixedUpdate schedule runs zero or   *)
(* more times, one run per elapsed fixed timestep), Update.                *)
(*                                                                         *)
(* Positions are f32 values, held as integers in units of 2^-17 world      *)
(* units: a position p of the model stands for the world coordinate        *)
(* p/Scale.  The fixed timestep is 1/64 s, so one tick moves the player by *)
(* 300/64 = 75/16 world units; every player coordinate is a multiple of    *)
(* 1/16 and every gem y that setup can draw is a multiple of 2^-17.  The   *)
(* f32 operations of the program (the scaling of the random number, the    *)
(* subtractions, squares and sum of Vec2::distance) are computed with      *)
(* their rounding to 24 significant bits, ties to even.                    *)
(***************************************************************************)
EXTENDS Integers, Naturals, Sequences, FiniteSets

----------------------------------------------------------------------------
(* Program constants *)

MAX_HEALTH == 3

\* horizontal_speed and vertical_speed of move_player (world units / second)
HorizontalSpeed == 300
VerticalSpeed == 300

\* FixedUpdate rate: Time<Fixed> runs at 64 Hz by default
FixedHz == 64

\* camera look-ahead of follow_player (world units)
LookAhead == 200

\* collection radius of collect_gems (world units)
CollectRadius == 30

\* gem layout of setup: x = i * 300 + 600
GemSpacing == 300
GemOffset == 600

\* gem layout of setup: y = rand::random::<f32>() * 400.0 - 200.0
GemYSpan == 400
GemYShift == 200

----------------------------------------------------------------------------
(* Bounds of the model *)

\* number of gems spawned by setup (the program spawns 100)
NumGems == 3

\* fixed ticks explored in one run
MaxTicks == 263

\* fixed ticks run by one frame's RunFixedMainLoop
MaxTicksPerFrame == 2

\* the vertical corridor explored: |player.y| <= YMax ticks of vertical motion
YMax == 7

\* outputs of the random number generator that setup draws the gems' y from:
\* the first NumGemYs entries of GemRands
NumGemYs == 1

----------------------------------------------------------------------------
(* Fixed-point representation and f32 arithmetic *)

\* world coordinates are held in units of 1/Scale = 2^-17
Scale == 2^17

\* horizontal_speed * time.delta_secs() and vertical_speed * time.delta_secs()
HStep == (HorizontalSpeed * Scale) \div FixedHz
VStep == (VerticalSpeed * Scale) \div FixedHz

Abs(x) == IF x < 0 THEN -x ELSE x

Max(a, b) == IF a >= b THEN a ELSE b

Min(a, b) == IF a <= b THEN a ELSE b

\* the least b in lo .. hi with n < 2^b, by bisection
RECURSIVE BitLenIn(_, _, _)
BitLenIn(n, lo, hi) ==
    IF lo = hi THEN lo
    ELSE LET mid == (lo + hi) \div 2
         IN  IF n < 2^mid THEN BitLenIn(n, lo, mid)
             ELSE BitLenIn(n, mid + 1, hi)

\* the number of binary digits of n, 0 <= n < 2^31
BitLen(n) == BitLenIn(n, 0, 31)

\* the f32 nearest to n >= 0 (n counts any fixed power-of-two unit): the
\* 24 leading binary digits are kept, the rest is rounded, ties to even
F32Round(n) ==
    LET sh == BitLen(n) - 24
    IN  IF n < 2^24 THEN n
        ELSE LET q    == n \div 2^sh
                 r    == n % 2^sh
                 half == 2^(sh - 1)
                 up   == r > half \/ (r = half /\ q % 2 = 1)
             IN  (IF up THEN q + 1 ELSE q) * 2^sh

F32RoundSigned(n) == IF n < 0 THEN 0 - F32Round(0 - n) ELSE F32Round(n)

\* the f32 subtraction a - b of two f32 values
F32Sub(a, b) == F32RoundSigned(a - b)

\* products of coordinates exceed 32 bits: a number w >= 0 in units of
\* 1/Scale^2 is held as the pair [hi, lo] with w = hi * Wide + lo, lo < Wide
Limb == 2^11
Wide == Limb * Limb

\* n * n for 0 <= n < Wide, exactly
SquareExact(n) ==
    LET a   == n \div Limb
        b   == n % Limb
        mid == 2 * a * b
        lo0 == (mid % Limb) * Limb + b * b
    IN  [hi |-> a * a + mid \div Limb + lo0 \div Wide, lo |-> lo0 % Wide]

\* u + v, exactly
AddWide(u, v) ==
    [hi |-> u.hi + v.hi + (u.lo + v.lo) \div Wide, lo |-> (u.lo + v.lo) % Wide]

\* u < v
WideLess(u, v) == u.hi < v.hi \/ (u.hi = v.hi /\ u.lo < v.lo)

\* the f32 nearest to w: F32Round on a pair (Wide = 2^22)
F32RoundWide(w) ==
    LET sh == BitLen(w.hi) - 2
    IN  IF w.hi < 4 THEN w
        ELSE LET q    == w.hi * 2^(22 - sh) + w.lo \div 2^sh
                 r    == w.lo % 2^sh
                 half == 2^(sh - 1)
                 up   == r > half \/ (r = half /\ q % 2 = 1)
                 m    == IF up THEN q + 1 ELSE q
             IN  [hi |-> m \div 2^(22 - sh), lo |-> (m % 2^(22 - sh)) * 2^sh]

\* 30.0 * 30.0 in units of 1/Scale^2
RadiusSquared ==
    LET r == CollectRadius * (Scale \div Limb)
    IN  [hi |-> r * r, lo |-> 0]

\* (Wide/Scale)^2 = 32^2 = 1024 in units of 1/Scale^2: a lower bound of the
\* f32 sum of squares when |dx| or |dy| is 32 or more
FarSquared == [hi |-> Wide, lo |-> 0]

GemIds == 0 .. (NumGems - 1)

\* x of the i-th gem spawned by setup
GemX(i) == (i * GemSpacing + GemOffset) * Scale

\* rand::random::<f32>() * 400.0 - 200.0 for the generator output k, which
\* stands for the f32 k * 2^-24 (0 <= k < 2^24): the product k * 400 * 2^-24
\* = 25 k * 2^-20 is rounded to f32, 200 is subtracted and the difference is
\* rounded to f32; the result is a multiple of 2^-17, returned in 1/Scale
GemYOfRand(k) ==
    LET prod == F32Round(k * (GemYSpan \div 16))
        diff == F32RoundSigned(prod - GemYShift * 2^20)
    IN  diff \div (2^20 \div Scale)

\* generator outputs k the gems' y are drawn from; they give the y values
\* 5.2000122, 0.0, 30.0, 74.658173 and -95.86303
GemRands == <<8606712, 8388608, 9646899, 11519999, 4367821>>

\* the values of y = rand::random::<f32>() * 400.0 - 200.0 explored
GemYs == {GemYOfRand(GemRands[j]) : j \in 1 .. Min(NumGemYs, Len(GemRands))}

----------------------------------------------------------------------------
(* State *)

VARIABLES
    state,           \* State<GameState>: "Playing" or "GameOver"
    next_state,      \* NextState<GameState>: "Unchanged" or the pending state
    score,           \* Score resource
    health,          \* the player's Health component: [current, max]
    player,          \* the player's Transform.translation: [x, y]
    camera,          \* the camera's Transform.translation: [x, y]
    gems,            \* the live Gem entities (ids in creation order)
    gem_x,           \* x of every gem spawned by setup
    gem_y,           \* y of every gem spawned by setup
    keys,            \* ButtonInput<KeyCode>: the keys held in a scenario run
    score_text,      \* TextSpan of the scoreboard
    health_text,     \* TextSpan of the health UI
    game_over_text,  \* TextSpan of the game-over UI
    stage,           \* the schedule the frame runs next
    nticks,          \* FixedUpdate runs of the current frame
    collected,       \* history: how often collect_gems collected each gem
    near_count,      \* history: live gems met in radius at pickup steps
    reached_zero     \* history: health.current has been 0 at a tick's end

vars == <<state, next_state, score, health, player, camera, gems, gem_x,
          gem_y, keys, score_text, health_text, game_over_text, stage, nticks,
          collected, near_count, reached_zero>>

world == <<score, health, player, camera, gems>>

GameStates == {"Playing", "GameOver"}

----------------------------------------------------------------------------
(* Text formatting *)

DigitChars == <<"0", "1", "2", "3", "4", "5", "6", "7", "8", "9">>

\* usize / i32 Display for a non-negative number
RECURSIVE ToString(_)
ToString(n) ==
    IF n < 10 THEN DigitChars[n + 1]
    ELSE ToString(n \div 10) \o DigitChars[(n % 10) + 1]

\* variant: the two numbers are written in the wrong order
FormatHealthSwapped(h) == ToString(h.max) \o "/" \o ToString(h.current)

\* format!("{}/{}", health.current, health.max)
FormatHealth(h) == ToString(h.current) \o "/" \o ToString(h.max)

----------------------------------------------------------------------------
(* Systems *)

\* variant: ArrowDown is looked at only when ArrowUp is not pressed
VerticalUpWins(up, down) ==
    IF up THEN 1 ELSE IF down THEN -1 ELSE 0

\* vertical of move_player: +1.0 for ArrowUp, -1.0 for ArrowDown, summed
Vertical(up, down) ==
    (IF up THEN 1 ELSE 0) - (IF down THEN 1 ELSE 0)

\* move_player: translation += (300 * dt, vertical * 300 * dt, 0)
move_player(pos, up, down) ==
    [x |-> pos.x + HStep, y |-> pos.y + Vertical(up, down) * VStep]

\* variant: the camera is put on the player, without the look-ahead
FollowNoLookAhead(cam, pos) ==
    [cam EXCEPT !.x = pos.x]

\* variant: the camera follows the player vertically too
FollowBoth(cam, pos) ==
    [x |-> pos.x + LookAhead * Scale, y |-> pos.y]

\* follow_player: camera.translation.x = player.translation.x + 200.0
follow_player(cam, pos) ==
    [cam EXCEPT !.x = pos.x + LookAhead * Scale]

\* Vec2::distance before its square root: with dx and dy the f32 differences
\* of the coordinates, the f32 sum of the f32 squares dx * dx and dy * dy.
\* Rounding is monotone and keeps 32.0, so a difference of 32 or more is
\* still one after rounding, and the sum then is 1024 or more
DistanceSquared(pos, gx, gy) ==
    IF Abs(pos.x - gx) >= Wide \/ Abs(pos.y - gy) >= Wide THEN FarSquared
    ELSE LET dx == Abs(F32Sub(pos.x, gx))
             dy == Abs(F32Sub(pos.y, gy))
         IN  F32RoundWide(AddWide(F32RoundWide(SquareExact(dx)),
                                  F32RoundWide(SquareExact(dy))))

\* variant: the distance is taken along x only
WithinRadiusXOnly(pos, gx, gy) ==
    WideLess(DistanceSquared(pos, gx, pos.y), RadiusSquared)

\* variant: a gem exactly one radius away is collected too
WithinRadiusInclusive(pos, gx, gy) ==
    \/ WideLess(DistanceSquared(pos, gx, gy), RadiusSquared)
    \/ DistanceSquared(pos, gx, gy) = RadiusSquared

\* player_pos.distance(gem_pos) < 30.0, on the truncated (x, y) positions.
\* The distance is the f32 square root of the f32 s = DistanceSquared; the
\* root is correctly rounded and 900 = 30 * 30 is an f32, so the root of
\* s >= 900 is at least 30.0, and the root of the largest f32 below 900,
\* 30 - 1.02e-6, rounds to an f32 below 30.0 (the f32 next to 30.0 is
\* 30 - 1.91e-6): the test holds exactly when s < 900
WithinRadius(pos, gx, gy) ==
    WideLess(DistanceSquared(pos, gx, gy), RadiusSquared)

\* variant: the sign of the health change is flipped
LoseHealthGain(h) == [h EXCEPT !.current = h.current + 1]

\* variant: the new health is computed but not stored
LoseHealthNone(h) == h

\* variant: the health is not clamped at 0
LoseHealthUnclamped(h) == [h EXCEPT !.current = h.current - 1]

\* variant: a gem costs two health points
LoseHealthTwice(h) == [h EXCEPT !.current = Max(h.current - 2, 0)]

\* health.current = (health.current - 1).max(0)
LoseHealth(h) == [h EXCEPT !.current = Max(h.current - 1, 0)]

\* variant: the score is bumped twice per gem
AddScoreTwice(s) == s + 2

\* **score += 1
AddScore(s) == s + 1

\* the gem_query of collect_gems: the live gems, in creation order
GemQuery(live) ==
    SelectSeq([k \in 1 .. NumGems |-> k - 1], LAMBDA g : g \in live)

\* variant: the loop ends at the first gem that is out of radius
RECURSIVE CollectLoopBreak(_, _, _, _, _)
CollectLoopBreak(todo, pos, xs, ys, acc) ==
    IF todo = << >> THEN acc
    ELSE LET g == Head(todo)
         IN  IF WithinRadius(pos, xs[g], ys[g])
             THEN CollectLoopBreak(Tail(todo), pos, xs, ys,
                      [score    |-> AddScore(acc.score),
                       health   |-> LoseHealth(acc.health),
                       despawn  |-> Append(acc.despawn, g),
                       sounds   |-> acc.sounds + 1])
             ELSE acc

\* the for loop of collect_gems over the rest of the query; acc holds the
\* score, the health, the entities whose despawn is queued in Commands and
\* the number of sounds spawned
RECURSIVE CollectLoop(_, _, _, _, _)
CollectLoop(todo, pos, xs, ys, acc) ==
    IF todo = << >> THEN acc
    ELSE LET g == Head(todo)
         IN  IF WithinRadius(pos, xs[g], ys[g])
             THEN CollectLoop(Tail(todo), pos, xs, ys,
                      [score    |-> AddScore(acc.score),
                       health   |-> LoseHealth(acc.health),
                       despawn  |-> Append(acc.despawn, g),
                       sounds   |-> acc.sounds + 1])
             ELSE CollectLoop(Tail(todo), pos, xs, ys, acc)

collect_gems(s, h, pos, live, xs, ys) ==
    CollectLoop(GemQuery(live), pos, xs, ys,
                [score |-> s, health |-> h, despawn |-> << >>, sounds |-> 0])

\* variant: the queued despawns are dropped
ApplyDespawnNever(live, queue) == live

\* the queued despawn commands are applied when the FixedUpdate schedule ends
ApplyDespawn(live, queue) ==
    live \ {queue[k] : k \in 1 .. Len(queue)}

\* variant: the death threshold is off by one
check_player_death_early(h, next) ==
    IF h.current <= 1 THEN "GameOver" ELSE next

\* variant: the death test is strict
check_player_death_strict(h, next) ==
    IF h.current < 0 THEN "GameOver" ELSE next

\* check_player_death: if health.current <= 0, next_state.set(GameOver)
check_player_death(h, next) ==
    IF h.current <= 0 THEN "GameOver" ELSE next

\* variant: the run condition is missing
InStateAny(st) == TRUE

\* the run condition in_state(GameState::Playing)
InStatePlaying(st) == st = "Playing"

\* variant: a pending request flips the state instead of setting it
ApplyTransitionToggle(st, next) ==
    IF next = "Unchanged" THEN st
    ELSE IF st = "Playing" THEN "GameOver" ELSE "Playing"

\* variant: a pending request is dropped
ApplyTransitionIgnore(st, next) == st

\* the StateTransition schedule: a pending state becomes the current state
ApplyTransition(st, next) ==
    IF next = "Unchanged" THEN st ELSE next

\* variant: the message is never set
GameOverMessageEmpty(st) == ""

\* show_game_over: the message for the current state
GameOverMessage(st) ==
    IF st = "GameOver" THEN "YOU DIED" ELSE ""

\* variant: collect_gems reads the position from before move_player ran
PlayerTransformStale(before, after) == before

\* the player Transform read by collect_gems, which is chained after
\* move_player: the translation move_player wrote in this tick
PlayerTransformSeen(before, after) == after

\* history only: gem g lies within the collection radius of position pos,
\* the distance being the f32 Vec2::distance of the two positions
Near(pos, g) ==
    WideLess(DistanceSquared(pos, gem_x[g], gem_y[g]), RadiusSquared)

----------------------------------------------------------------------------
(* Initial state: the world once main has built the App and setup has run *)

Init ==
    /\ state = "Playing"
    /\ next_state = "Unchanged"
    /\ score = 0
    /\ health = [current |-> MAX_HEALTH, max |-> MAX_HEALTH]
    /\ player = [x |-> 0, y |-> 0]
    /\ camera = [x |-> 0, y |-> 0]
    /\ gems = GemIds
    /\ gem_x = [g \in GemIds |-> GemX(g)]
    /\ gem_y \in [GemIds -> GemYs]
    /\ keys = [up |-> FALSE, down |-> FALSE]
    /\ score_text = ""
    /\ health_text = ""
    /\ game_over_text = ""
    /\ stage = "StateTransition"
    /\ nticks = 0
    /\ collected = [g \in GemIds |-> 0]
    /\ near_count = 0
    /\ reached_zero = FALSE

----------------------------------------------------------------------------
(* Actions *)

\* StateTransition schedule of a frame: NextState is taken and applied;
\* OnEnter(GameOver) runs show_game_over when the state changed to GameOver
StateTransition ==
    /\ stage = "StateTransition"
    /\ state' = ApplyTransition(state, next_state)
    /\ next_state' = "Unchanged"
    /\ game_over_text' =
          IF state' # state /\ state' = "GameOver"
          THEN GameOverMessage(state')
          ELSE game_over_text
    /\ stage' = "RunFixedMainLoop"
    /\ nticks' = 0
    /\ UNCHANGED <<world, gem_x, gem_y, keys, score_text, health_text,
                   collected, near_count, reached_zero>>

\* one run of the FixedUpdate schedule: (move_player, follow_player,
\* collect_gems).chain().run_if(in_state(Playing)), then the queued commands
FixedUpdate(up, down) ==
    /\ stage = "RunFixedMainLoop"
    /\ nticks < MaxTicksPerFrame
    /\ player.x < MaxTicks * HStep
    /\ nticks' = nticks + 1
    /\ IF InStatePlaying(state)
       THEN LET pos == move_player(player, up, down)
                cam == follow_player(camera, pos)
                res == collect_gems(score, health,
                                    PlayerTransformSeen(player, pos),
                                    gems, gem_x, gem_y)
            IN  /\ Abs(pos.y) <= YMax * VStep
                /\ player' = pos
                /\ camera' = cam
                /\ score' = res.score
                /\ health' = res.health
                /\ gems' = ApplyDespawn(gems, res.despawn)
                /\ collected' =
                      [g \in GemIds |->
                          collected[g] +
                          Cardinality({k \in 1 .. Len(res.despawn) :
                                          res.despawn[k] = g})]
                /\ near_count' =
                      near_count + Cardinality({g \in gems : Near(pos, g)})
                /\ reached_zero' = (reached_zero \/ res.health.current = 0)
       ELSE UNCHANGED <<world, collected, near_count, reached_zero>>
    /\ UNCHANGED <<state, next_state, gem_x, gem_y, keys, score_text,
                   health_text, game_over_text, stage>>

\* the Update schedule, which ends the frame: update_scoreboard and
\* update_health_ui run if in_state(Playing); check_player_death always runs
Update ==
    /\ stage = "RunFixedMainLoop"
    /\ score_text' =
          IF InStatePlaying(state) THEN ToString(score) ELSE score_text
    /\ health_text' =
          IF InStatePlaying(state) THEN FormatHealth(health) ELSE health_text
    /\ next_state' = check_player_death(health, next_state)
    /\ stage' = "StateTransition"
    /\ nticks' = 0
    /\ UNCHANGED <<state, world, gem_x, gem_y, keys, game_over_text,
                   collected, near_count, reached_zero>>

Next ==
    \/ StateTransition
    \/ \E up, down \in BOOLEAN : FixedUpdate(up, down)
    \/ Update

Spec == Init /\ [][Next]_vars

\* frames keep being run: the app's runner executes the main schedule forever
FairSpec == Spec /\ WF_vars(StateTransition) /\ WF_vars(Update)

----------------------------------------------------------------------------
(* The FixedUpdate schedule as a function of the world it is run on: the   *)
(* gems are placed on the spots of TickGemSpots, live or already removed,   *)
(* and the health is anything from 0 to MAX_HEALTH, then FixedUpdate runs   *)
(* as in one frame.                                                        *)

\* gem positions around a player at the origin: in radius before the first
\* move only, in radius after the first move (at a y that setup can draw
\* and that is no multiple of 1/16), exactly one radius away after a level
\* first move, and out of reach
TickGemSpots ==
    { [x |-> 0 - 6 * HStep, y |-> 0],
      [x |-> 7 * HStep, y |-> GemYOfRand(GemRands[1])],
      [x |-> HStep + CollectRadius * Scale, y |-> 0],
      [x |-> GemX(0), y |-> 0] }

TickInit ==
    /\ state = "Playing"
    /\ next_state = "Unchanged"
    /\ score = 0
    /\ \E h \in 0 .. MAX_HEALTH :
          /\ health = [current |-> h, max |-> MAX_HEALTH]
          /\ health_text = FormatHealth(health)
          /\ reached_zero = (h = 0)
    /\ player = [x |-> 0, y |-> 0]
    /\ camera = [x |-> 0, y |-> 0]
    /\ gems \in SUBSET GemIds
    /\ \E spot \in [GemIds -> TickGemSpots] :
          /\ gem_x = [g \in GemIds |-> spot[g].x]
          /\ gem_y = [g \in GemIds |-> spot[g].y]
    /\ keys = [up |-> FALSE, down |-> FALSE]
    /\ score_text = ToString(score)
    /\ game_over_text = ""
    /\ stage = "RunFixedMainLoop"
    /\ nticks = 0
    /\ collected = [g \in GemIds |-> 0]
    /\ near_count = 0

TickNext == \E up, down \in BOOLEAN : FixedUpdate(up, down)

TickSpec == TickInit /\ [][TickNext]_vars

----------------------------------------------------------------------------
(* The running program on gems that lie close together: beside the layout  *)
(* of setup, all gems lie on one spot, which is in radius after the first  *)
(* tick, or in a row one tick of travel apart, so that a gem comes in      *)
(* radius in each of the first ticks.                                      *)

\* ticks of travel to the first gem of the close layouts, the least number
\* whose travel exceeds the radius: 6 ticks (28.125) before the gem it is in
\* radius, 7 ticks (32.8125) before it it is not
FirstGemTicks == (CollectRadius * Scale) \div HStep + 1

ScenarioLayouts ==
    {[g \in GemIds |-> [x |-> GemX(g), y |-> ys[g]]] :
        ys \in [GemIds -> GemYs]}
    \cup {[g \in GemIds |-> [x |-> FirstGemTicks * HStep, y |-> y]] :
            y \in GemYs}
    \cup {[g \in GemIds |-> [x |-> (FirstGemTicks + g) * HStep, y |-> y]] :
            y \in GemYs}

ScenarioInit ==
    /\ state = "Playing"
    /\ next_state = "Unchanged"
    /\ score = 0
    /\ health = [current |-> MAX_HEALTH, max |-> MAX_HEALTH]
    /\ player = [x |-> 0, y |-> 0]
    /\ camera = [x |-> 0, y |-> 0]
    /\ gems = GemIds
    /\ \E layout \in ScenarioLayouts :
          /\ gem_x = [g \in GemIds |-> layout[g].x]
          /\ gem_y = [g \in GemIds |-> layout[g].y]
    /\ keys = [up |-> FALSE, down |-> FALSE]
    /\ score_text = ""
    /\ health_text = ""
    /\ game_over_text = ""
    /\ stage = "StateTransition"
    /\ nticks = 0
    /\ collected = [g \in GemIds |-> 0]
    /\ near_count = 0
    /\ reached_zero = FALSE

ScenarioSpec == ScenarioInit /\ [][Next]_vars

\* frames keep being run, as in FairSpec
FairScenarioSpec ==
    ScenarioSpec /\ WF_vars(StateTransition) /\ WF_vars(Update)

----------------------------------------------------------------------------
(* The frames of state GameOver as a function of the world they are run    *)
(* on: beside the runs of the program, runs that start in GameOver at      *)
(* health 0 with gems, live or already removed, on the spots of            *)
(* TickGemSpots around the player.                                         *)

OverInit ==
    /\ state = "GameOver"
    /\ next_state = "GameOver"
    /\ score = MAX_HEALTH
    /\ health = [current |-> 0, max |-> MAX_HEALTH]
    /\ player = [x |-> 0, y |-> 0]
    /\ camera = follow_player([x |-> 0, y |-> 0], player)
    /\ gems \in SUBSET GemIds
    /\ \E spot \in [GemIds -> TickGemSpots] :
          /\ gem_x = [g \in GemIds |-> spot[g].x]
          /\ gem_y = [g \in GemIds |-> spot[g].y]
    /\ keys = [up |-> FALSE, down |-> FALSE]
    /\ score_text = ToString(score)
    /\ health_text = FormatHealth(health)
    /\ game_over_text = GameOverMessage(state)
    /\ stage = "StateTransition"
    /\ nticks = 0
    /\ collected = [g \in GemIds |-> 0]
    /\ near_count = 0
    /\ reached_zero = TRUE

OverStart == Init \/ OverInit

OverSpec == OverStart /\ [][Next]_vars

----------------------------------------------------------------------------
(* move_player as a function of the keys held: the keys are drawn once and *)
(* held while move_player runs for the ticks of one second.                *)

MoveInit ==
    /\ state = "Playing"
    /\ next_state = "Unchanged"
    /\ score = 0
    /\ health = [current |-> MAX_HEALTH, max |-> MAX_HEALTH]
    /\ player = [x |-> 0, y |-> 0]
    /\ camera = [x |-> 0, y |-> 0]
    /\ gems = GemIds
    /\ gem_x = [g \in GemIds |-> GemX(g)]
    /\ gem_y \in [GemIds -> GemYs]
    /\ keys \in [up : BOOLEAN, down : BOOLEAN]
    /\ score_text = ""
    /\ health_text = ""
    /\ game_over_text = ""
    /\ stage = "move_player"
    /\ nticks = 0
    /\ collected = [g \in GemIds |-> 0]
    /\ near_count = 0
    /\ reached_zero = FALSE

\* one run of move_player with the held keys
MoveTick ==
    /\ stage = "move_player"
    /\ nticks < FixedHz
    /\ player' = move_player(player, keys.up, keys.down)
    /\ nticks' = nticks + 1
    /\ UNCHANGED <<state, next_state, score, health, camera, gems, gem_x,
                   gem_y, keys, score_text, health_text, game_over_text,
                   stage, collected, near_count, reached_zero>>

MoveSpec == MoveInit /\ [][MoveTick]_vars

----------------------------------------------------------------------------
(* Properties *)

\* the gems collect_gems has collected at least once
CollectedGems == {g \in GemIds : collected[g] > 0}

\* C1: in every reachable state 0 <= health.current <= health.max, and
\* health.max is MAX_HEALTH = 3
HealthInRange ==
    /\ health.max = MAX_HEALTH
    /\ 0 <= health.current
    /\ health.current <= health.max

\* C1 witness: collections have driven the health from 3 down to 0
HealthDrivenToZero ==
    /\ health.current = 0
    /\ Cardinality(CollectedGems) = MAX_HEALTH

\* C2: score starts at 0 and changes only by +1 together with the removal
\* of exactly one live gem; score + live gems = gems spawned, and score is
\* the number of distinct gems collected
ScoreCountsCollections ==
    /\ score = 0
    /\ [][ \/ (score' = score /\ gems' = gems)
           \/ /\ score' = score + 1
              /\ gems' \subseteq gems
              /\ Cardinality(gems \ gems') = 1 ]_vars
    /\ [](score + Cardinality(gems) = NumGems)
    /\ [](score = Cardinality(CollectedGems))

\* C2 witness: two gems were collected, many ticks apart
TwoGemsScored ==
    /\ score = 2
    /\ collected[0] = 1
    /\ collected[NumGems - 1] = 1
    /\ Cardinality(gems) = NumGems - 2

\* C3: a gem is collected at most once and is gone once collected; a tick
\* in which no live gem is within radius of the moved player changes neither
\* score nor health, wherever the player is
GemCollectedAtMostOnce ==
    /\ [](\A g \in GemIds :
            /\ collected[g] <= 1
            /\ (collected[g] = 1 => g \notin gems))
    /\ [][ (\A g \in gems : ~Near(player', g))
              => (score' = score /\ health' = health) ]_vars

\* C3 witness: ticks have run while the player was still within the radius
\* of the former position of a collected gem, in state Playing
StillInsideCollectedGem ==
    \E g \in GemIds :
        /\ collected[g] = 1
        /\ g \notin gems
        /\ Near(player, g)
        /\ player.x > GemX(g) + HStep
        /\ state = "Playing"
        /\ stage = "RunFixedMainLoop"
        /\ nticks > 0

\* C4: the state changes only from Playing to GameOver, so GameOver is kept
\* in every later state
StateOnlyPlayingToGameOver ==
    /\ [](state \in GameStates)
    /\ [][state' # state => (state = "Playing" /\ state' = "GameOver")]_vars

\* C4 witness: check_player_death has requested GameOver again while the
\* state already was GameOver
GameOverRequestedAgain ==
    /\ state = "GameOver"
    /\ next_state = "GameOver"
    /\ stage = "StateTransition"

\* C5: GameState = GameOver implies health.current = 0
GameOverImpliesZeroHealth ==
    state = "GameOver" => health.current = 0

\* C5 witness: the transition to GameOver has happened
GameOverEntered ==
    /\ state = "GameOver"
    /\ health.current = 0
    /\ game_over_text = "YOU DIED"

\* C6 as stated: GameOver if and only if health has reached 0
GameOverIffReachedZero ==
    (state = "GameOver") <=> reached_zero

\* C6 amended: GameOver only if health has reached 0; and when health has
\* reached 0 while the state still is Playing, the frame in which it did has
\* not run its Update yet or the transition to GameOver is pending
GameOverLatchLagsOneFrame ==
    /\ state = "GameOver" => reached_zero
    /\ (reached_zero /\ state = "Playing")
          => (stage = "RunFixedMainLoop" \/ next_state = "GameOver")

\* C6 witness: health has reached 0, the frame has ended, the state is
\* still Playing and the transition is pending
GameOverPending ==
    /\ reached_zero
    /\ state = "Playing"
    /\ stage = "StateTransition"
    /\ next_state = "GameOver"

\* C7: health 0 in state Playing leads to GameOver; the Update of a frame
\* that ends with health 0 requests GameOver, and the state-transition step
\* that finds the request makes the state GameOver
DeathLeadsToGameOver ==
    /\ (health.current = 0 /\ state = "Playing") ~> (state = "GameOver")
    /\ [][ (stage = "RunFixedMainLoop" /\ stage' = "StateTransition"
             /\ health.current = 0) => next_state' = "GameOver" ]_vars
    /\ [][ (stage = "StateTransition" /\ stage' = "RunFixedMainLoop"
             /\ next_state = "GameOver") => state' = "GameOver" ]_vars

\* C7 witness: health has become 0 in a fixed tick while Playing
ZeroHealthWhilePlaying ==
    /\ health.current = 0
    /\ state = "Playing"
    /\ stage = "RunFixedMainLoop"
    /\ nticks > 0

\* C8: while the state is GameOver no step changes score, health, the live
\* gems, the player position or the camera position, also when a live gem
\* lies within the collection radius of the player
GameOverFreezesWorld ==
    [][state = "GameOver" => UNCHANGED world]_vars

\* C8 witness: fixed ticks have run in state GameOver while a live gem was
\* within the radius of the player and another live gem within the radius
\* of the position a further move would give the player
FixedTickInGameOver ==
    /\ state = "GameOver"
    /\ stage = "RunFixedMainLoop"
    /\ nticks = MaxTicksPerFrame
    /\ \E g \in gems : Near(player, g)
    /\ \E g \in gems : Near(move_player(player, FALSE, FALSE), g)

\* C9: once three live gems have come within radius at pickup steps, in
\* one tick, in consecutive ticks or many ticks apart, the score is 3 and
\* the health 0, and the run reaches GameOver with health 0 and with the
\* score the number of gems that came within radius, 3 when no further gem
\* did before GameOver
ThreeGemsEndGame ==
    /\ [](near_count = 3 => (score = 3 /\ health.current = 0))
    /\ (near_count = 3)
          ~> (score = near_count /\ health.current = 0 /\ state = "GameOver")

\* C9 witness: the end of scenario A with three gems, no two on one spot,
\* that came within radius in the first three ticks, one in each
ScenarioAEnd ==
    /\ near_count = 3
    /\ score = 3
    /\ health.current = 0
    /\ state = "GameOver"
    /\ player.x = MAX_HEALTH * HStep
    /\ \A g, h \in GemIds : gem_x[g] = gem_x[h] => g = h

\* the end of scenario A with three gems that came within radius in one tick
ScenarioASameTickEnd ==
    /\ near_count = 3
    /\ score = 3
    /\ health.current = 0
    /\ state = "GameOver"
    /\ player.x = HStep

\* C10: as long as no live gem has been within radius at a pickup step,
\* score is 0, health is 3, every gem is alive and the state is Playing
NoGemNearKeepsStart ==
    near_count = 0 =>
        /\ score = 0
        /\ health.current = MAX_HEALTH
        /\ gems = GemIds
        /\ state = "Playing"
        /\ next_state = "Unchanged"

\* C10 witness: the player has passed every gem without meeting one
PassedAllGemsUntouched ==
    /\ near_count = 0
    /\ \A g \in GemIds : player.x > GemX(g) + CollectRadius * Scale
    /\ stage = "StateTransition"

\* the live gems within the collection radius of the position the player
\* has after the step
InRadiusAfter == {g \in gems : Near(player', g)}

\* the Euclidean distance of gem g to position pos is less than 30, in exact
\* arithmetic
EuclideanNear(pos, g) ==
    LET dx == Abs(pos.x - gem_x[g])
        dy == Abs(pos.y - gem_y[g])
    IN  /\ dx < Wide
        /\ dy < Wide
        /\ WideLess(AddWide(SquareExact(dx), SquareExact(dy)), RadiusSquared)

\* every order in which the gems of S can be iterated
Orders(S) ==
    {q \in [1 .. Cardinality(S) -> S] :
        \A i, j \in 1 .. Cardinality(S) : q[i] = q[j] => i = j}

\* what a run of collect_gems leaves behind
Outcome(r) ==
    [score   |-> r.score,
     health  |-> r.health,
     removed |-> {r.despawn[k] : k \in 1 .. Len(r.despawn)},
     sounds  |-> r.sounds]

\* C11: whatever the keys of the next tick are, the result of collect_gems
\* is the same for every order in which the live gems are iterated, so a
\* run is determined by the gem positions and the inputs
IterationOrderIrrelevant ==
    \A up, down \in BOOLEAN :
        LET pos == move_player(player, up, down)
            ref == Outcome(collect_gems(score, health, pos,
                                        gems, gem_x, gem_y))
            start == [score |-> score, health |-> health,
                      despawn |-> << >>, sounds |-> 0]
        IN  \A q \in Orders(gems) :
                Outcome(CollectLoop(q, pos, gem_x, gem_y, start)) = ref

\* C11 witness: one tick has collected two gems and left a live gem, which
\* the iteration passed before or between them, out of radius
TwoGemsInOneTick ==
    /\ nticks = 1
    /\ Cardinality(CollectedGems) = 2
    /\ gems # {}

\* C12: a tick removes exactly the live gems at a distance strictly less
\* than 30 from the moved player, adds their number to the score and takes
\* it from the health, clamped at 0; gems at 30 or more stay alive; on the
\* positions explored the f32 distance is below 30 exactly when the
\* Euclidean distance is
CollectsExactlyGemsInRadius ==
    [][ player' # player =>
          /\ gems' = gems \ InRadiusAfter
          /\ score' = score + Cardinality(InRadiusAfter)
          /\ health'.current =
                Max(health.current - Cardinality(InRadiusAfter), 0)
          /\ health'.max = health.max
          /\ \A g \in gems :
                \/ Near(player', g)
                \/ g \in gems' /\ collected'[g] = collected[g]
          /\ \A g \in gems : Near(player', g) <=> EuclideanNear(player', g)
          /\ \A g \in gems :
                (gem_y[g] = player'.y
                   /\ Abs(gem_x[g] - player'.x) >= 30 * Scale)
                => (g \in gems' /\ collected'[g] = collected[g]) ]_vars

\* C12 witness: a tick has collected a gem whose y is no multiple of 1/16
\* and left alive a gem that is exactly 30 away from the player
GemAtExactRadiusLeft ==
    /\ nticks = 1
    /\ score = 1
    /\ \E g \in GemIds :
          /\ collected[g] = 1
          /\ gem_y[g] % (Scale \div 16) # 0
    /\ \E g \in gems :
          /\ gem_y[g] = player.y
          /\ gem_x[g] - player.x = 30 * Scale

\* C13: when a tick finds live gems in radius while health.current is 0,
\* or more of them than health remains, the gems are removed and counted
\* in the score and health.current is 0 afterwards; it is never negative
ZeroHealthStillCollects ==
    /\ [](health.current >= 0)
    /\ [][ (player' # player /\ InRadiusAfter # {}
              /\ health.current <= Cardinality(InRadiusAfter)) =>
             /\ gems' = gems \ InRadiusAfter
             /\ score' = score + Cardinality(InRadiusAfter)
             /\ health'.current = 0 ]_vars

\* C13 witness: the run started with health 0 in state Playing and a tick
\* has collected a gem
CollectedAtZeroHealth ==
    /\ health_text = "0/3"
    /\ state = "Playing"
    /\ score >= 1
    /\ health.current = 0
    /\ nticks > 0

\* the vertical intent of the held keys: +1 for up, -1 for down, summed
HeldIntent ==
    (IF keys.up THEN 1 ELSE 0) + (IF keys.down THEN -1 ELSE 0)

\* C14: after k ticks of move_player with the keys held the player has
\* moved by (300 * k / 64, v * 300 * k / 64), with v = 0 when both keys
\* are pressed and no clamp on y; after one second with up held it has
\* moved by (+300, +300)
MoveDisplacement ==
    /\ player.x = 300 * nticks * (Scale \div 64)
    /\ player.y = HeldIntent * 300 * nticks * (Scale \div 64)
    /\ (keys.up /\ keys.down) => player.y = 0
    /\ (nticks = 64 /\ keys.up /\ ~keys.down)
          => player = [x |-> 300 * Scale, y |-> 300 * Scale]

\* C14 witness: up has been held for one second of ticks
UpHeldOneSecond ==
    /\ nticks = 64
    /\ keys.up
    /\ ~keys.down
    /\ player.y = 300 * Scale

\* C15: once a tick has run, camera.x = player.x + 200, also after
\* GameOver; camera.y keeps its initial value
CameraLooksAhead ==
    /\ player.x > 0 => camera.x = player.x + 200 * Scale
    /\ player.x = 0 => camera.x = 0
    /\ camera.y = 0

\* C15 witness: the player has moved vertically and fixed ticks have run
\* after GameOver
CameraAheadAfterGameOver ==
    /\ state = "GameOver"
    /\ nticks > 0
    /\ player.y # 0
    /\ camera.x = player.x + 200 * Scale
    /\ camera.y = 0

\* C16: pickup detection uses the position move_player wrote in the same
\* tick: a live gem in radius of the moved position only is collected in
\* this tick, a live gem in radius of the position before the move only is
\* not; the camera, too, is placed from the moved position
TickUsesMovedPosition ==
    [][ player' # player =>
          /\ camera'.x = player'.x + 200 * Scale
          /\ \A g \in gems :
                /\ (Near(player', g) /\ ~Near(player, g))
                      => (g \notin gems' /\ collected'[g] = collected[g] + 1)
                /\ (Near(player, g) /\ ~Near(player', g))
                      => (g \in gems' /\ collected'[g] = collected[g]) ]_vars

\* C16 witness: the first tick has collected a gem that was out of radius
\* before the move and has left alive a gem that was in radius before it
MovedIntoAndOutOfRadius ==
    /\ nticks = 1
    /\ \E g \in GemIds :
          /\ collected[g] = 1
          /\ Abs(gem_x[g]) >= 30 * Scale
    /\ \E g \in gems :
          /\ gem_y[g] = 0
          /\ Abs(gem_x[g]) < 30 * Scale

\* a step that runs the gameplay systems of FixedUpdate
GameplayTick ==
    /\ stage = "RunFixedMainLoop"
    /\ stage' = "RunFixedMainLoop"
    /\ state = "Playing"

\* a step that runs the Update schedule
UpdateStep ==
    /\ stage = "RunFixedMainLoop"
    /\ stage' = "StateTransition"

\* C17: score, health and gems change only in a tick in which collect_gems
\* finds a gem in radius; positions change only in a tick, of the camera
\* only x; a tick leaves the state and the request alone; GameOver is
\* requested only by check_player_death at health 0 and the state changes
\* only to the requested state; Update changes nothing of the world
OnlyPickupAndDeathCheckWrite ==
    [][ /\ (<<score, health, gems>>' # <<score, health, gems>>)
              => (GameplayTick /\ InRadiusAfter # {})
        /\ (player' # player \/ camera' # camera) => GameplayTick
        /\ camera'.y = camera.y
        /\ GameplayTick => UNCHANGED <<state, next_state>>
        /\ (next_state' # next_state /\ next_state' # "Unchanged")
              => (UpdateStep /\ health.current <= 0
                    /\ next_state' = "GameOver")
        /\ state' # state => (stage = "StateTransition" /\ next_state = state')
        /\ UpdateStep => UNCHANGED <<world, state>> ]_vars

\* C17 witness: every system has written: the player has steered, three
\* gems are collected and check_player_death has requested GameOver
AllWritersActed ==
    /\ state = "Playing"
    /\ next_state = "GameOver"
    /\ score = 3
    /\ player.y # 0
    /\ camera.x = player.x + 200 * Scale

\* C18: the game-over text is "" or "YOU DIED", and it is "YOU DIED"
\* exactly when the state is GameOver
GameOverTextIffGameOver ==
    /\ game_over_text \in {"", "YOU DIED"}
    /\ (game_over_text = "YOU DIED") <=> (state = "GameOver")

\* C18 witness: a frame after the one that entered GameOver has begun and
\* the text still is "YOU DIED"
GameOverTextKept ==
    /\ game_over_text = "YOU DIED"
    /\ state = "GameOver"
    /\ stage = "RunFixedMainLoop"
    /\ nticks = 0
    /\ next_state = "Unchanged"

\* C19: health.current = max(0, health.max - score)
HealthFollowsScore ==
    health.current = Max(0, health.max - score)

\* C19 witness: two gems are collected and one health point is left
OneHealthLeft ==
    /\ score = 2
    /\ health.current = 1
    /\ stage = "StateTransition"

\* C20: in state GameOver the displayed score is the final score and the
\* displayed health is "0/3"
FinalTextsNotStale ==
    state = "GameOver" =>
        /\ score_text = ToString(score)
        /\ score = 3 => score_text = "3"
        /\ health_text = "0/3"

\* C20 witness: GameOver with the final score and health on display
FinalTextsShown ==
    /\ state = "GameOver"
    /\ score = 3
    /\ score_text = "3"
    /\ health_text = "0/3"
    /\ nticks = MaxTicksPerFrame

====
